---- MODULE Spec2Model ----
(***************************************************************************)
(* The engine of main.py: the directed property graph (Graph,              *)
(* MarkedGraph), the entity graph and attribute graph builders, the alias  *)
(* resolver, the validator and the layered scheduler, run over a bounded   *)
(* family of catalogs.                                                     *)
(*                                                                         *)
(* A Python dict is modelled as the sequence of its <<key, value>> items   *)
(* in insertion order (keys unique); a Python str as a TLA+ string, built  *)
(* with \o and taken apart with SubSeq.                                    *)
(***************************************************************************)
EXTENDS Naturals, Sequences, FiniteSets, TLC

VARIABLES
    ENTITIES,       \* the catalog handed to build_entity_graph (main.py:230)
    entity_graph,   \* module-level entity_graph (main.py:389)
    attr_graph,     \* module-level attr_graph (main.py:390)
    pc,             \* position of the program
    exc,            \* the exception that ended the program, "None" while none has
    marked,         \* execution_order's local MarkedGraph (main.py:378)
    order,          \* execution_order's local list of layers (main.py:379)
    unmarked,       \* execution_order's local unmarked_roots (main.py:381, 384)
    graph,          \* a Graph driven by arbitrary add_node / add_edge calls
    calls,          \* history: the add_edge calls made on graph, in order
    lookup          \* the entity[name] lookup made and what it gave (main.py:48)

vars == <<ENTITIES, entity_graph, attr_graph, pc, exc, marked, order, unmarked,
          graph, calls, lookup>>

-----------------------------------------------------------------------------
(* Python dict: ordered items, unique keys.                                *)

Has(d, k) == \E i \in DOMAIN d : d[i][1] = k

Get(d, k) == d[CHOOSE i \in DOMAIN d : d[i][1] = k][2]

Put(d, k, v) ==
    IF Has(d, k)
    THEN [i \in DOMAIN d |-> IF d[i][1] = k THEN <<k, v>> ELSE d[i]]
    ELSE Append(d, <<k, v>>)

Keys(d) == {d[i][1] : i \in DOMAIN d}

Values(d) == [i \in DOMAIN d |-> d[i][2]]

-----------------------------------------------------------------------------
(* Python str: '{}.{}'.format(a, b) and s.split('.').                      *)

format(a, b) == a \o "." \o b

RECURSIVE split_from(_, _, _)
\* the pieces of s from position i on; the current piece began at position b
split_from(s, b, i) ==
    IF i > Len(s) THEN <<SubSeq(s, b, Len(s))>>
    ELSE IF SubSeq(s, i, i) = "."
         THEN <<SubSeq(s, b, i - 1)>> \o split_from(s, i + 1, i + 1)
         ELSE split_from(s, b, i + 1)

split(s) == split_from(s, 1, 1)

RECURSIVE format_from(_, _, _, _, _)
\* str.format from position i of the template on, n the next automatic field,
\* out the text produced so far: "{{" and "}}" are literal braces, "{}" takes
\* the next positional argument, a lone brace is a ValueError
format_from(template, args, i, n, out) ==
    IF i > Len(template) THEN [ok |-> TRUE, s |-> out]
    ELSE LET c == SubSeq(template, i, i)
             d == IF i < Len(template) THEN SubSeq(template, i + 1, i + 1) ELSE ""
         IN  IF c = "{"
             THEN IF d = "{" THEN format_from(template, args, i + 2, n, out \o "{")
                  ELSE IF d = "}"
                       THEN IF n > Len(args) THEN [ok |-> FALSE, error |-> "IndexError"]
                            ELSE format_from(template, args, i + 2, n + 1, out \o args[n])
                  ELSE IF d = "" THEN [ok |-> FALSE, error |-> "ValueError"]
                  ELSE [ok |-> FALSE, error |-> "KeyError"]  \* a named field, no keyword given
             ELSE IF c = "}"
             THEN IF d = "}" THEN format_from(template, args, i + 2, n, out \o "}")
                  ELSE [ok |-> FALSE, error |-> "ValueError"]  \* Single '}' encountered
             ELSE format_from(template, args, i + 1, n, out \o c)

\* template.format(*args): the text, or the exception raised
str_format(template, args) == format_from(template, args, 1, 1, "")

RECURSIVE str_join(_, _)
\* sep.join(seq)
str_join(sep, seq) ==
    IF seq = <<>> THEN ""
    ELSE IF Len(seq) = 1 THEN seq[1]
    ELSE seq[1] \o sep \o str_join(sep, Tail(seq))

-----------------------------------------------------------------------------
(* class Graph                                                             *)

Graph == [edges |-> <<>>, nodes |-> <<>>]

add_node(g, key, val) == [g EXCEPT !.nodes = Put(@, key, val)]

add_edge_nodedup(g, from_key, to_key, meta) ==
    LET edges1 == IF ~Has(g.edges, from_key)
                  THEN Put(g.edges, from_key, <<>>) ELSE g.edges
    IN  [g EXCEPT !.edges =
            Put(edges1, from_key, Append(Get(edges1, from_key), <<to_key, meta>>))]

add_edge_overwrite(g, from_key, to_key, meta) ==
    LET edges1 == IF ~Has(g.edges, from_key)
                  THEN Put(g.edges, from_key, <<>>) ELSE g.edges
        outs   == Get(edges1, from_key)
    IN  IF \E i \in DOMAIN outs : to_key = outs[i][1]
        THEN [g EXCEPT !.edges = Put(edges1, from_key,
                [i \in DOMAIN outs |-> IF outs[i][1] = to_key
                                       THEN <<to_key, meta>> ELSE outs[i]])]
        ELSE [g EXCEPT !.edges = Put(edges1, from_key, Append(outs, <<to_key, meta>>))]

add_edge(g, from_key, to_key, meta) ==
    LET edges1 == IF ~Has(g.edges, from_key)
                  THEN Put(g.edges, from_key, <<>>) ELSE g.edges
        outs   == Get(edges1, from_key)
    IN  IF \E i \in DOMAIN outs : to_key = outs[i][1]
        THEN [g EXCEPT !.edges = edges1]
        ELSE [g EXCEPT !.edges = Put(edges1, from_key, Append(outs, <<to_key, meta>>))]

\* The (from_key, meta) pairs the generator yields; one edge list holds a
\* destination at most once, so the pairs are distinct and a set keeps them all.
in_edges_first_key(g, node_key) ==
    UNION {{<<g.edges[i][1], g.edges[i][2][j][2]>> :
                j \in {j \in DOMAIN g.edges[i][2] : g.edges[i][2][j][1] = node_key}} :
           i \in DOMAIN g.edges \cap {1}}

in_edges(g, node_key) ==
    UNION {{<<g.edges[i][1], g.edges[i][2][j][2]>> :
                j \in {j \in DOMAIN g.edges[i][2] : g.edges[i][2][j][1] = node_key}} :
           i \in DOMAIN g.edges}

roots_no_out(g) == {node_key \in Keys(g.nodes) : ~Has(g.edges, node_key)}

roots(g) == {node_key \in Keys(g.nodes) : in_edges(g, node_key) = {}}

-----------------------------------------------------------------------------
(* class MarkedGraph(Graph)                                                *)

from_graph_no_edges(g) == [nodes |-> g.nodes, edges |-> <<>>, marked_nodes |-> {}]

from_graph(g) == [nodes |-> g.nodes, edges |-> g.edges, marked_nodes |-> {}]

to_mark_eager(m) ==
    {node_key \in Keys(m.nodes) \ m.marked_nodes :
        \A e \in in_edges(m, node_key) :
            e[1] \in m.marked_nodes \/ in_edges(m, e[1]) = {}}

to_mark_any(m) ==
    {node_key \in Keys(m.nodes) \ m.marked_nodes :
        \/ in_edges(m, node_key) = {}
        \/ \E e \in in_edges(m, node_key) : e[1] \in m.marked_nodes}

\* the set unmarked_roots builds and returns (main.py:302-306)
to_mark(m) ==
    {node_key \in Keys(m.nodes) \ m.marked_nodes :
        \A e \in in_edges(m, node_key) : e[1] \in m.marked_nodes}

unmarked_roots_forget(m) == m

\* the MarkedGraph after the call (main.py:308)
unmarked_roots(m) ==
    [m EXCEPT !.marked_nodes = m.marked_nodes \cup to_mark(m)]

-----------------------------------------------------------------------------
(* build_entity_graph                                                      *)

RECURSIVE add_joins(_, _, _)
\* the inner loop over entity.RELATIONSHIPS.items(), from item i on
add_joins(g, entity, i) ==
    IF i > Len(entity.RELATIONSHIPS) THEN g
    ELSE LET join_name == entity.RELATIONSHIPS[i][1]
             join      == entity.RELATIONSHIPS[i][2]
             meta      == [name |-> join_name, join |-> join]
         IN  add_joins(add_edge(g, join.entity, entity.name, meta), entity, i + 1)

RECURSIVE add_entities(_, _, _)
\* the outer loop over entities, from entity i on
add_entities(g, entities, i) ==
    IF i > Len(entities) THEN g
    ELSE add_entities(add_joins(add_node(g, entities[i].name, entities[i]),
                                entities[i], 1),
                      entities, i + 1)

build_entity_graph(entities) == add_entities(Graph, entities, 1)

-----------------------------------------------------------------------------
(* lookup_input_keys: [ok |-> TRUE, input_key, parent_key] on return,      *)
(* [ok |-> FALSE, error] when the unpacking or the assertion fails.        *)

lookup_input_keys_first(eg, entity_name, attr_key) ==
    LET parts       == split(attr_key)
        sources     == in_edges(eg, entity_name)
        input_joins == {src \in sources : src[2].name = parts[1]}
        any_join    == IF input_joins # {} THEN input_joins ELSE sources
        input_join  == (CHOOSE src \in any_join : TRUE)[2].join
    IN  IF Len(parts) # 2 THEN [ok |-> FALSE, error |-> "ValueError"]
        ELSE IF sources = {} THEN [ok |-> FALSE, error |-> "IndexError"]
        ELSE [ok |-> TRUE,
              input_key  |-> format(input_join.entity, parts[2]),
              parent_key |-> format(entity_name, input_join.match_name)]

lookup_input_keys(eg, entity_name, attr_key) ==
    LET parts       == split(attr_key)
        input_alias == parts[1]
        attr_name   == parts[2]
        sources     == in_edges(eg, entity_name)
        input_joins == {src \in sources : src[2].name = input_alias}
        input_join  == (CHOOSE src \in input_joins : TRUE)[2].join
    IN  IF Len(parts) # 2 THEN [ok |-> FALSE, error |-> "ValueError"]
        ELSE IF Cardinality(input_joins) # 1
        THEN [ok |-> FALSE, error |-> "AssertionError"]
        ELSE [ok |-> TRUE,
              input_key  |-> format(input_join.entity, attr_name),
              parent_key |-> format(entity_name, input_join.match_name)]

-----------------------------------------------------------------------------
(* build_attribute_graph: [ok |-> TRUE, g] on return, [ok |-> FALSE,       *)
(* error] when a lookup raises (the local attr_graph is then lost).        *)

add_input_edges_always(g, input_key, parent_key, key) ==
    add_edge(add_edge(g, input_key, key, "None"), parent_key, key, "None")

add_input_edges_input_only(g, input_key, parent_key, key) ==
    add_edge(g, input_key, key, "None")

\* the two add_edge calls for one resolved input (main.py:364-366)
add_input_edges(g, input_key, parent_key, key) ==
    LET g1 == add_edge(g, input_key, key, "None")
    IN  IF parent_key # key THEN add_edge(g1, parent_key, key, "None") ELSE g1

RECURSIVE add_inputs(_, _, _, _, _)
\* the loop over attribute.inputs.values(), from input k on
add_inputs(r, eg, entity, attribute, k) ==
    IF ~r.ok \/ k > Len(attribute.inputs) THEN r
    ELSE LET key == format(entity.name, attribute.name)
             inp == attribute.inputs[k][2]
             res == lookup_input_keys(eg, entity.name, inp)
             g2  == add_input_edges(r.g, res.input_key, res.parent_key, key)
         IN  IF ~res.ok THEN [ok |-> FALSE, error |-> res.error]
             ELSE add_inputs([ok |-> TRUE, g |-> g2], eg, entity, attribute, k + 1)

RECURSIVE add_attributes(_, _, _, _)
\* the loop over entity.attributes.values(), from attribute j on
add_attributes(r, eg, entity, j) ==
    IF ~r.ok \/ j > Len(entity.attributes) THEN r
    ELSE LET attribute == entity.attributes[j][2]
             key       == format(entity.name, attribute.name)
             r1        == [ok |-> TRUE, g |-> add_node(r.g, key, attribute)]
         IN  add_attributes(add_inputs(r1, eg, entity, attribute, 1), eg, entity, j + 1)

RECURSIVE add_tables(_, _, _)
\* the loop over entity_graph.nodes.values(), from entity i on
add_tables(r, eg, i) ==
    IF ~r.ok \/ i > Len(eg.nodes) THEN r
    ELSE add_tables(add_attributes(r, eg, Values(eg.nodes)[i], 1), eg, i + 1)

build_attribute_graph(eg) == add_tables([ok |-> TRUE, g |-> Graph], eg, 1)

-----------------------------------------------------------------------------
(* validate_graph: "None" on return, "AssertionError" when a root's table  *)
(* is no Source.                                                           *)

validate_graph_any(ag) ==
    IF \E attr_name \in roots(ag) : Get(ag.nodes, attr_name).entity.cls = "Source"
    THEN "None" ELSE "AssertionError"

validate_graph(ag) ==
    IF \A attr_name \in roots(ag) : Get(ag.nodes, attr_name).entity.cls = "Source"
    THEN "None" ELSE "AssertionError"

-----------------------------------------------------------------------------
(* The data model: Attribute, Entity, Source, Derived, Join.               *)

\* Attribute.entity refers to the owning table: its name and its class.
Attribute(entity, name, inputs) == [entity |-> entity, name |-> name, inputs |-> inputs]

\* attr_defs: dict name -> inputs; rels: the class's RELATIONSHIPS dict
Entity(cls, name, attr_defs, rels) ==
    [name |-> name, cls |-> cls, RELATIONSHIPS |-> rels,
     attributes |-> [i \in DOMAIN attr_defs |->
        <<attr_defs[i][1],
          Attribute([name |-> name, cls |-> cls], attr_defs[i][1], attr_defs[i][2])>>]]

\* schema: the column names of SCHEMAS[path]; a Source column has no inputs
Source(path, schema) ==
    Entity("Source", path, [i \in DOMAIN schema |-> <<schema[i], <<>>>>], <<>>)

Derived(name, attr_defs, rels) == Entity("Derived", name, attr_defs, rels)

Join(entity, name, match_name) ==
    [entity |-> entity, name |-> name, match_name |-> match_name]

\* Entity.__repr__ (main.py:44-46): the name and the list of attribute names
Entity_repr(self) ==
    LET attr_names == [i \in DOMAIN self.attributes |->
                          "'" \o self.attributes[i][1] \o "'"]
    IN  str_format("Entity({}, {})",
                   <<self.name, "[" \o str_join(", ", attr_names) \o "]">>).s

\* AttributeNotFound.__init__ (main.py:10-12): the exception constructed, or
\* the exception that constructing it raises; in the source text the
\* template is '{}.{} not found: {}.\{{}\}', the backslashes kept as written
AttributeNotFound(entity, attribute) ==
    LET r == str_format("{}.{} not found: {}.\\{{}\\}",
                        <<Entity_repr(entity), attribute, Entity_repr(entity),
                          str_join(", ", [i \in DOMAIN entity.attributes |->
                                         entity.attributes[i][1]])>>)
    IN  IF r.ok THEN [raised |-> "AttributeNotFound", message |-> r.s]
        ELSE [raised |-> r.error, message |-> ""]

\* Entity.__getitem__ (main.py:48-51): value holds the Attribute returned
Entity_getitem(self, name) ==
    IF ~Has(self.attributes, name)
    THEN LET e == AttributeNotFound(self, name)
         IN  [raised |-> e.raised, message |-> e.message, value |-> <<>>]
    ELSE [raised |-> "None", message |-> "", value |-> <<Get(self.attributes, name)>>]

\* no lookup made yet
NoLookup == [self |-> 0, name |-> "", message |-> "", value |-> <<>>]

-----------------------------------------------------------------------------
(* The catalogs: the Source s, the Derived e computed from s, and a        *)
(* Derived f whose joins and attributes range over every declaration the   *)
(* names below allow.                                                      *)

MaxInputs == 2                      \* inputs one attribute of f declares

TableNames == {"s", "e", "f"}
AttrNames  == <<"id", "x">>         \* in the order dir() lists them
AliasNames == <<"a", "b">>
ParamNames == <<"p", "q", "r">>

Range(seq) == {seq[i] : i \in DOMAIN seq}

\* every selector "<alias>.<column>", in a fixed order
SelectorList ==
    [n \in 1..(Len(AliasNames) * Len(AttrNames)) |->
        format(AliasNames[((n - 1) \div Len(AttrNames)) + 1],
               AttrNames[((n - 1) % Len(AttrNames)) + 1])]

RECURSIVE SortedSeq(_)
SortedSeq(I) ==
    IF I = {} THEN <<>>
    ELSE LET m == CHOOSE m \in I : \A n \in I : m <= n
         IN  <<m>> \o SortedSeq(I \ {m})

\* the inputs dicts (parameter name -> selector) of at most MaxInputs items
InputDicts ==
    {[k \in 1..Cardinality(I) |-> <<ParamNames[k], SelectorList[SortedSeq(I)[k]]>>] :
        I \in {I \in SUBSET DOMAIN SelectorList : Cardinality(I) <= MaxInputs}}

\* the RELATIONSHIPS dicts (alias -> Join): at most one join per alias
JoinDicts ==
    UNION {{[i \in 1..n |-> <<AliasNames[i], Join(up[i][1], "id", up[i][2])>>] :
                up \in [1..n -> TableNames \X Range(AttrNames)]} :
           n \in 0..Len(AliasNames)}

RECURSIVE Declared(_, _)
\* the attr_defs dict of the attributes that choice declares, from name i on;
\* choice[i] is <<TRUE, inputs>> for a declared attribute, <<FALSE, <<>>>> else
Declared(choice, i) ==
    IF i > Len(AttrNames) THEN <<>>
    ELSE (IF choice[i][1] THEN <<(<<AttrNames[i], choice[i][2]>>)>> ELSE <<>>)
         \o Declared(choice, i + 1)

raw_s == Source("s", <<"id">>)

derived_e == Derived("e",
                     << <<"id", << <<"p", "a.id">> >> >>, <<"x", << <<"p", "a.id">> >> >> >>,
                     << <<"a", Join("s", "id", "id")>> >>)

Catalogs ==
    {<<raw_s, derived_e, Derived("f", Declared(choice, 1), rels)>> :
        choice \in [DOMAIN AttrNames -> ({TRUE} \X InputDicts) \cup {<<FALSE, <<>>>>}],
        rels \in JoinDicts}

-----------------------------------------------------------------------------
(* The catalog the module ships (main.py:117-231).                         *)

\* the column names of each source table, in declaration order
SCHEMAS ==
    << <<"data/raw/orders", <<"id", "shop_id", "customer_id", "completed_at">> >>,
       <<"data/raw/transactions",
         <<"id", "order_id", "product_name", "unit_cost", "quantity">> >>,
       <<"data/raw/customers", <<"id", "name">> >>,
       <<"data/raw/shops", <<"id", "name", "country">> >> >>

raw_orders == Source("data/raw/orders", Get(SCHEMAS, "data/raw/orders"))
raw_transactions == Source("data/raw/transactions", Get(SCHEMAS, "data/raw/transactions"))
raw_customers == Source("data/raw/customers", Get(SCHEMAS, "data/raw/customers"))
raw_shops == Source("data/raw/shops", Get(SCHEMAS, "data/raw/shops"))

\* Derived lists the decorated methods in the order of dir(): by name
shops ==
    Derived("shops",
            << <<"country_code", << <<"country", "shops.country">> >> >>,
               <<"country_name", << <<"country", "shops.country">> >> >>,
               <<"id", << <<"id", "shops.id">> >> >>,
               <<"name", << <<"name", "shops.name">> >> >> >>,
            << <<"shops", Join("data/raw/shops", "id", "id")>> >>)

customers ==
    Derived("customers",
            << <<"id", << <<"id", "customers.id">> >> >>,
               <<"name", << <<"name", "customers.name">> >> >> >>,
            << <<"customers", Join("data/raw/customers", "id", "id")>> >>)

\* the decorator nearest the function runs first, so customer_name is the
\* first input of shop_customer_name
sales ==
    Derived("sales",
            << <<"customer_id", << <<"id", "orders.customer_id">> >> >>,
               <<"id", << <<"id", "orders.id">> >> >>,
               <<"shop_customer_name", << <<"customer_name", "customers.name">>,
                                          <<"shop_name", "shops.name">> >> >>,
               <<"shop_id", << <<"id", "orders.shop_id">> >> >>,
               <<"shop_name", << <<"name", "shops.name">> >> >> >>,
            << <<"orders", Join("data/raw/orders", "id", "id")>>,
               <<"transactions", Join("data/raw/transactions", "order_id", "id")>>,
               <<"shops", Join("shops", "id", "shop_id")>>,
               <<"customers", Join("customers", "id", "customer_id")>> >>)

ShippedEntities ==
    <<raw_orders, raw_transactions, raw_customers, raw_shops, shops, customers, sales>>

-----------------------------------------------------------------------------
(* The program: module-level construction (main.py:389-391), then          *)
(* execution_order on the attribute graph.                                 *)

Init ==
    /\ ENTITIES \in Catalogs \cup {ShippedEntities}
    /\ entity_graph = Graph
    /\ attr_graph = Graph
    /\ pc = "start"
    /\ exc = "None"
    /\ marked = from_graph(Graph)
    /\ order = <<>>
    /\ unmarked = {}
    /\ graph = Graph
    /\ calls = <<>>
    /\ lookup = NoLookup

BuildEntityGraph ==
    /\ pc = "start"
    /\ entity_graph' = build_entity_graph(ENTITIES)
    /\ pc' = "entity_graph"
    /\ UNCHANGED <<lookup, ENTITIES, attr_graph, exc, marked, order, unmarked, graph, calls>>

BuildAttributeGraph ==
    /\ pc = "entity_graph"
    /\ LET r == build_attribute_graph(entity_graph)
       IN  IF r.ok
           THEN attr_graph' = r.g /\ pc' = "attr_graph" /\ exc' = exc
           ELSE attr_graph' = attr_graph /\ pc' = "build_attribute_graph raised"
                /\ exc' = r.error
    /\ UNCHANGED <<lookup, ENTITIES, entity_graph, marked, order, unmarked, graph, calls>>

ValidateGraph ==
    /\ pc = "attr_graph"
    /\ exc' = validate_graph(attr_graph)
    /\ pc' = IF exc' = "None" THEN "validated" ELSE "validate_graph raised"
    /\ UNCHANGED <<lookup, ENTITIES, entity_graph, attr_graph, marked, order,
                   unmarked, graph, calls>>

\* execution_order, lines 378-379
ExecutionOrder ==
    /\ pc \in {"attr_graph", "validated"}
    /\ marked' = from_graph(attr_graph)
    /\ order' = <<>>
    /\ pc' = "unmarked_roots"
    /\ UNCHANGED <<lookup, ENTITIES, entity_graph, attr_graph, exc, unmarked, graph, calls>>

\* one call marked.unmarked_roots(), lines 381 and 384
UnmarkedRoots ==
    /\ pc = "unmarked_roots"
    /\ unmarked' = to_mark(marked)
    /\ marked' = unmarked_roots(marked)
    /\ pc' = "while"
    /\ UNCHANGED <<lookup, ENTITIES, entity_graph, attr_graph, exc, order, graph, calls>>

\* the loop body, lines 382-383
AppendLayer ==
    /\ pc = "while"
    /\ unmarked # {}
    /\ order' = Append(order, unmarked)
    /\ pc' = "unmarked_roots"
    /\ UNCHANGED <<lookup, ENTITIES, entity_graph, attr_graph, exc, marked, unmarked, graph,
                   calls>>

\* the loop exit and the return, lines 382 and 386
ReturnOrder ==
    /\ pc = "while"
    /\ unmarked = {}
    /\ pc' = "returned"
    /\ UNCHANGED <<lookup, ENTITIES, entity_graph, attr_graph, exc, marked, order, unmarked,
                   graph, calls>>

Next ==
    \/ BuildEntityGraph
    \/ BuildAttributeGraph
    \/ ValidateGraph
    \/ ExecutionOrder
    \/ UnmarkedRoots
    \/ AppendLayer
    \/ ReturnOrder

Spec == Init /\ [][Next]_vars

\* execution_order is sequential code: once called, each of its steps runs
SpecFair == Spec /\ WF_vars(UnmarkedRoots \/ AppendLayer \/ ReturnOrder)

-----------------------------------------------------------------------------
(* A Graph under arbitrary add_node and add_edge calls.                    *)

MaxCalls == 3                       \* add_edge calls made on the graph

GraphKeys  == {"p", "q"}
GraphMetas == {"m1", "m2"}

InitGraph ==
    /\ ENTITIES = <<>>
    /\ entity_graph = Graph
    /\ attr_graph = Graph
    /\ pc = "graph"
    /\ exc = "None"
    /\ marked = from_graph(Graph)
    /\ order = <<>>
    /\ unmarked = {}
    /\ graph = Graph
    /\ calls = <<>>
    /\ lookup = NoLookup

AddNode(key, val) ==
    /\ pc = "graph"
    /\ graph' = add_node(graph, key, val)
    /\ UNCHANGED <<lookup, ENTITIES, entity_graph, attr_graph, pc, exc, marked, order,
                   unmarked, calls>>

AddEdge(from_key, to_key, meta) ==
    /\ pc = "graph"
    /\ graph' = add_edge(graph, from_key, to_key, meta)
    /\ Len(calls) < MaxCalls
    /\ calls' = Append(calls, <<from_key, to_key, meta>>)
    /\ UNCHANGED <<lookup, ENTITIES, entity_graph, attr_graph, pc, exc, marked, order, unmarked>>

NextGraph ==
    \/ \E key \in GraphKeys, val \in GraphMetas : AddNode(key, val)
    \/ \E from_key \in GraphKeys, to_key \in GraphKeys, meta \in GraphMetas :
            AddEdge(from_key, to_key, meta)

SpecGraph == InitGraph /\ [][NextGraph]_vars

-----------------------------------------------------------------------------
(* Attribute lookups entity[name] on the tables of a catalog.              *)

LookupNames == {"id", "x", "name", "nope"}

InitGetItem ==
    /\ ENTITIES \in Catalogs \cup {ShippedEntities}
    /\ entity_graph = Graph
    /\ attr_graph = Graph
    /\ pc = "getitem"
    /\ exc = "None"
    /\ marked = from_graph(Graph)
    /\ order = <<>>
    /\ unmarked = {}
    /\ graph = Graph
    /\ calls = <<>>
    /\ lookup = NoLookup

\* ENTITIES[i][name]
GetItem(i, name) ==
    /\ pc = "getitem"
    /\ LET r == Entity_getitem(ENTITIES[i], name)
       IN  /\ lookup' = [self |-> i, name |-> name, message |-> r.message,
                         value |-> r.value]
           /\ exc' = r.raised
           /\ pc' = IF r.raised = "None" THEN "getitem returned" ELSE "getitem raised"
    /\ UNCHANGED <<ENTITIES, entity_graph, attr_graph, marked, order, unmarked,
                   graph, calls>>

NextGetItem == \E i \in DOMAIN ENTITIES, name \in LookupNames : GetItem(i, name)

SpecGetItem == InitGetItem /\ [][NextGetItem]_vars

-----------------------------------------------------------------------------
(* Vocabulary of the properties.                                           *)

\* the (from, to) pairs of the edges a graph stores
EdgePairs(g) ==
    UNION {{<<g.edges[i][1], g.edges[i][2][j][1]>> : j \in DOMAIN g.edges[i][2]} :
           i \in DOMAIN g.edges}

Succs(E, S) == {p[2] : p \in {p \in E : p[1] \in S}}

RECURSIVE Closure(_, _)
Closure(E, S) ==
    LET T == S \cup Succs(E, S) IN IF T = S THEN S ELSE Closure(E, T)

\* the keys a path of one or more edges of E leads to from k
ReachFrom(E, k) == Closure(E, Succs(E, {k}))

HasCycle(E) == \E p \in E : p[1] \in ReachFrom(E, p[1])

\* the keys the plan holds, and the indices of the layers holding a key
Planned == UNION Range(order)
LayersOf(k) == {i \in DOMAIN order : k \in order[i]}

\* the attributes a sequence of tables declares, as <<entity, attribute>> pairs
AttrsOf(tables) ==
    UNION {{<<tables[i], tables[i].attributes[j][2]>> :
                j \in DOMAIN tables[i].attributes} : i \in DOMAIN tables}

\* their selectors, as <<entity, attribute, selector>> triples
InputsOf(tables) ==
    UNION {{<<ea[1], ea[2], ea[2].inputs[k][2]>> : k \in DOMAIN ea[2].inputs} :
           ea \in AttrsOf(tables)}

CatalogAttrs == AttrsOf(ENTITIES)
CatalogInputs == InputsOf(ENTITIES)

KeyOf(ea) == format(ea[1].name, ea[2].name)

AttrGraphBuilt == pc \in {"attr_graph", "validated", "validate_graph raised",
                          "unmarked_roots", "while", "returned"}

-----------------------------------------------------------------------------
\* C1: in the layer sequence execution_order returns, every edge A -> B of the
\* attribute graph with both ends in the plan has every layer index of A
\* strictly below every layer index of B, and no two attributes of one layer
\* are joined by a path of the graph.
C1_LayersRespectEdges ==
    pc = "returned" =>
        /\ \A p \in EdgePairs(attr_graph) :
              (p[1] \in Planned /\ p[2] \in Planned) =>
                  \A i \in LayersOf(p[1]), j \in LayersOf(p[2]) : i < j
        /\ \A i \in DOMAIN order : \A A \in order[i], B \in order[i] :
              B \notin ReachFrom(EdgePairs(attr_graph), A)

\* a returned plan of at least three layers with an edge from the second to the third
C1_Witness ==
    /\ pc = "returned"
    /\ Len(order) >= 3
    /\ \E p \in EdgePairs(attr_graph) : p[1] \in order[2] /\ p[2] \in order[3]

\* C2 (as claimed): on an acyclic attribute graph from build_attribute_graph the
\* returned layers partition the node keys: each key in exactly one layer, and
\* no layer empty.
C2_CompletePartition ==
    (pc = "returned" /\ ~HasCycle(EdgePairs(attr_graph))) =>
        /\ \A k \in Keys(attr_graph.nodes) : Cardinality(LayersOf(k)) = 1
        /\ Planned \subseteq Keys(attr_graph.nodes)
        /\ \A i \in DOMAIN order : order[i] # {}

-----------------------------------------------------------------------------
\* the joins of the catalog, as <<entity, alias, join>> triples
CatalogJoins ==
    UNION {{<<ENTITIES[i], ENTITIES[i].RELATIONSHIPS[j][1], ENTITIES[i].RELATIONSHIPS[j][2]>> :
                j \in DOMAIN ENTITIES[i].RELATIONSHIPS} : i \in DOMAIN ENTITIES}

\* well-formed: every selector's alias is a declared join of its entity, the
\* (table, attribute) keys are unique, the entity join graph is acyclic
WellFormed ==
    /\ \A t \in CatalogInputs : Has(t[1].RELATIONSHIPS, split(t[3])[1])
    /\ \A i \in DOMAIN ENTITIES, j \in DOMAIN ENTITIES :
          ENTITIES[i].name = ENTITIES[j].name => i = j
    /\ \A ea1 \in CatalogAttrs, ea2 \in CatalogAttrs :
          KeyOf(ea1) = KeyOf(ea2) => ea1 = ea2
    /\ ~HasCycle({<<t[3].entity, t[1].name>> : t \in CatalogJoins})

\* K depends on M: attribute K has an input through a join of its entity whose
\* match attribute is M, M other than K
JoinKeyPairs ==
    {p \in {<<format(t[1].name, Get(t[1].RELATIONSHIPS, split(t[3])[1]).match_name),
              format(t[1].name, t[2].name)>> :
                t \in {t \in CatalogInputs : Has(t[1].RELATIONSHIPS, split(t[3])[1])}} :
        p[1] # p[2]}

Targets(g) == {p[2] : p \in EdgePairs(g)}

RootsAndPredecessors ==
    /\ \A ea \in CatalogAttrs :
          (KeyOf(ea) \in Keys(attr_graph.nodes) /\ KeyOf(ea) \notin Targets(attr_graph))
              => ea[1].cls = "Source"
    /\ \A ea \in CatalogAttrs :
          ea[1].cls = "Source" => KeyOf(ea) \notin Targets(attr_graph)
    /\ \A ea \in CatalogAttrs :
          ea[1].cls = "Derived" => KeyOf(ea) \in Targets(attr_graph)

\* C3 (as claimed): for a well-formed catalog on which construction and
\* validation complete, the attribute graph is acyclic, every root belongs to a
\* Source, no Source attribute has a predecessor and every Derived attribute
\* has one.
C3_WellFormedAcyclic ==
    (pc = "validated" /\ WellFormed) =>
        (~HasCycle(EdgePairs(attr_graph)) /\ RootsAndPredecessors)

\* C3 (amended): the same, for the well-formed catalogs in which the join-key
\* dependencies among the attributes of one entity are not circular.
C3_WellFormedJoinKeysAcyclic ==
    (pc = "validated" /\ WellFormed /\ ~HasCycle(JoinKeyPairs)) =>
        (~HasCycle(EdgePairs(attr_graph)) /\ RootsAndPredecessors)

\* a validated well-formed catalog in which f.x is computed through a join
\* matched on f.id, and f reads from the Derived e
C3_Witness ==
    /\ pc = "validated" /\ WellFormed /\ ~HasCycle(JoinKeyPairs)
    /\ <<"f.id", "f.x">> \in EdgePairs(attr_graph)
    /\ \E p \in EdgePairs(attr_graph) : p[1] \in {"e.id", "e.x"} /\ p[2] = "f.id"

-----------------------------------------------------------------------------
\* the edges the builder is to add for the selectors of the entity graph's tables
ExpectedAttrEdges ==
    UNION {LET K   == format(t[1].name, t[2].name)
               res == lookup_input_keys(entity_graph, t[1].name, t[3])
           IN  {<<res.input_key, K>>} \cup
               (IF res.parent_key = K THEN {} ELSE {<<res.parent_key, K>>}) :
           t \in InputsOf(Values(entity_graph.nodes))}

\* C4: the attribute graph has one node '<table>.<attribute>' per attribute of
\* every table of the entity graph, and its edges are exactly input_key -> K
\* and, unless parent_key = K, parent_key -> K, for every selector of every
\* attribute K; a self-loop K -> K is there only as an input edge.
C4_NodesAndEdgesExact ==
    AttrGraphBuilt =>
        /\ Keys(attr_graph.nodes) = {KeyOf(ea) : ea \in AttrsOf(Values(entity_graph.nodes))}
        /\ EdgePairs(attr_graph) = ExpectedAttrEdges
        /\ \A t \in CatalogInputs :
              LET K   == format(t[1].name, t[2].name)
                  res == lookup_input_keys(entity_graph, t[1].name, t[3])
              IN  (res.parent_key = K /\ \A u \in CatalogInputs :
                        (u[1] = t[1] /\ u[2] = t[2]) =>
                            lookup_input_keys(entity_graph, u[1].name, u[3]).input_key # K)
                  => <<K, K>> \notin EdgePairs(attr_graph)

\* a built graph where f.id is the match attribute of the join it reads through
\* and f.x has two inputs through two joins
C4_Witness ==
    /\ AttrGraphBuilt
    /\ \E t \in CatalogInputs :
          /\ t[1].name = "f" /\ t[2].name = "id"
          /\ lookup_input_keys(entity_graph, "f", t[3]).parent_key = "f.id"
    /\ \E t \in CatalogInputs, u \in CatalogInputs :
          /\ t[1].name = "f" /\ t[2].name = "x" /\ u[1].name = "f" /\ u[2].name = "x"
          /\ split(t[3])[1] # split(u[3])[1]

-----------------------------------------------------------------------------
EntityGraphBuilt == pc # "start"

\* C5 (as claimed): for every entity E of the catalog, every alias a under which
\* E declares a join and every column c, lookup_input_keys(entity_graph, E.name,
\* 'a.c') returns ('<U>.<c>', '<E.name>.<m>'), U the upstream table and m the
\* match attribute of the join E declares under a.
C5_EveryDeclaredAliasResolves ==
    EntityGraphBuilt =>
        \A t \in CatalogJoins, c \in Range(AttrNames) :
            lookup_input_keys(entity_graph, t[1].name, format(t[2], c)) =
                [ok |-> TRUE,
                 input_key  |-> format(t[3].entity, c),
                 parent_key |-> format(t[1].name, t[3].match_name)]

\* the number of incoming edges of an entity that carry an alias
AliasCount(g, entity_name, alias) ==
    Cardinality({ij \in UNION {{<<i, j>> : j \in DOMAIN g.edges[i][2]} : i \in DOMAIN g.edges} :
                    /\ g.edges[ij[1]][2][ij[2]][1] = entity_name
                    /\ g.edges[ij[1]][2][ij[2]][2].name = alias})

\* the selectors of the entity graph's tables whose alias is missing or ambiguous
BadSelectors ==
    {t \in InputsOf(Values(entity_graph.nodes)) :
        AliasCount(entity_graph, t[1].name, split(t[3])[1]) # 1}

\* C6: a selector whose alias is carried by zero or by several incoming edges of
\* its entity makes lookup_input_keys fail with an assertion error, and
\* build_attribute_graph then raises it and returns no attribute graph.
C6_BadAliasAborts ==
    /\ EntityGraphBuilt =>
          \A t \in BadSelectors :
              lookup_input_keys(entity_graph, t[1].name, t[3]) =
                  [ok |-> FALSE, error |-> "AssertionError"]
    /\ (pc \notin {"start", "entity_graph"} /\ BadSelectors # {}) =>
          /\ pc = "build_attribute_graph raised"
          /\ exc = "AssertionError"
          /\ attr_graph = Graph

\* the build was aborted by a selector of f naming an alias f declares no join for
C6_Witness ==
    /\ pc = "build_attribute_graph raised"
    /\ \E t \in BadSelectors :
          /\ t[1].name = "f"
          /\ ~Has(t[1].RELATIONSHIPS, split(t[3])[1])
          /\ t[1].RELATIONSHIPS # <<>>

-----------------------------------------------------------------------------
\* the nodes without incoming edge whose table is no Source
NonSourceRoots ==
    {ea \in CatalogAttrs :
        /\ KeyOf(ea) \in Keys(attr_graph.nodes)
        /\ KeyOf(ea) \notin Targets(attr_graph)
        /\ ea[1].cls # "Source"}

\* C7: validate_graph fails with an assertion error exactly when some node
\* without incoming edge belongs to a table that is no Source; a Derived
\* attribute declared without inputs makes it fail.
C7_ValidateIffNonSourceRoot ==
    /\ pc = "validated" => (NonSourceRoots = {} /\ exc = "None")
    /\ pc = "validate_graph raised" => (NonSourceRoots # {} /\ exc = "AssertionError")
    /\ (AttrGraphBuilt /\ NonSourceRoots # {}) => validate_graph(attr_graph) = "AssertionError"
    /\ (AttrGraphBuilt /\ NonSourceRoots = {}) => validate_graph(attr_graph) = "None"
    /\ (pc \in {"validated", "validate_graph raised"}
            /\ \E ea \in CatalogAttrs : ea[1].cls = "Derived" /\ ea[2].inputs = <<>>)
          => pc = "validate_graph raised"

\* validation failed on a graph with a Source root and a Derived attribute of f
\* declared without inputs beside one declared with inputs
C7_Witness ==
    /\ pc = "validate_graph raised"
    /\ \E ea \in CatalogAttrs : ea[1].name = "f" /\ ea[2].inputs = <<>>
    /\ \E ea \in CatalogAttrs : ea[1].name = "f" /\ ea[2].inputs # <<>>

-----------------------------------------------------------------------------
\* C8 (as claimed): on an attribute graph with a cycle execution_order reports
\* a dependency-cycle error; it returns no layer sequence.
C8_CycleIsReported ==
    pc = "returned" => ~HasCycle(EdgePairs(attr_graph))

-----------------------------------------------------------------------------
\* the edges a graph stores, as <<from, to, meta>> triples, and their number
EdgeTriples(g) ==
    UNION {{<<g.edges[i][1], g.edges[i][2][j][1], g.edges[i][2][j][2]>> :
                j \in DOMAIN g.edges[i][2]} : i \in DOMAIN g.edges}

RECURSIVE SumLen(_, _)
SumLen(d, i) == IF i > Len(d) THEN 0 ELSE Len(d[i][2]) + SumLen(d, i + 1)

EdgeCount(g) == SumLen(g.edges, 1)

\* the (from, to) pairs add_edge was called for, and the first call for a pair
CalledPairs == {<<calls[i][1], calls[i][2]>> : i \in DOMAIN calls}

FirstCall(from_key, to_key) ==
    calls[CHOOSE i \in DOMAIN calls :
            /\ <<calls[i][1], calls[i][2]>> = <<from_key, to_key>>
            /\ \A j \in DOMAIN calls :
                  <<calls[j][1], calls[j][2]>> = <<from_key, to_key>> => i <= j]

\* C9: after any sequence of add_edge calls a Graph stores at most one edge per
\* ordered (from, to) pair, with the metadata of the first call for the pair,
\* and a repeated add_edge(from, to, m') leaves the edge lists unchanged.
C9_FirstInsertionWins ==
    /\ [](/\ EdgeCount(graph) = Cardinality(EdgePairs(graph))
          /\ EdgePairs(graph) = CalledPairs
          /\ \A t \in EdgeTriples(graph) : t[3] = FirstCall(t[1], t[2])[3])
    /\ [][\A from_key \in GraphKeys, to_key \in GraphKeys, meta \in GraphMetas :
            (AddEdge(from_key, to_key, meta) /\ <<from_key, to_key>> \in CalledPairs)
                => graph'.edges = graph.edges]_vars

\* the pair (p, q) was added a second time with other metadata, after another
\* edge, and both edges are stored
C9_Witness ==
    /\ \E i \in DOMAIN calls, j \in DOMAIN calls :
          /\ i < j
          /\ <<calls[i][1], calls[i][2]>> = <<"p", "q">>
          /\ <<calls[j][1], calls[j][2]>> = <<"p", "q">>
          /\ calls[i][3] # calls[j][3]
    /\ EdgeCount(graph) >= 2

-----------------------------------------------------------------------------
\* the index of the first join of an entity to an upstream table
FirstJoinTo(entity, upstream) ==
    CHOOSE j \in DOMAIN entity.RELATIONSHIPS :
        /\ entity.RELATIONSHIPS[j][2].entity = upstream
        /\ \A k \in DOMAIN entity.RELATIONSHIPS :
              entity.RELATIONSHIPS[k][2].entity = upstream => j <= k

\* C10: the entity graph's nodes are the names of the given tables, it has the
\* edge upstream -> downstream for every declared join, one edge per such pair,
\* and an edge carries the alias and Join of the first join the downstream
\* entity declares to that upstream table.
C10_EntityGraphExact ==
    EntityGraphBuilt =>
        /\ Keys(entity_graph.nodes) = {ENTITIES[i].name : i \in DOMAIN ENTITIES}
        /\ \A i \in DOMAIN ENTITIES : Get(entity_graph.nodes, ENTITIES[i].name) = ENTITIES[i]
        /\ EdgePairs(entity_graph) = {<<t[3].entity, t[1].name>> : t \in CatalogJoins}
        /\ EdgeCount(entity_graph) = Cardinality(EdgePairs(entity_graph))
        /\ \A t \in EdgeTriples(entity_graph) :
              \E i \in DOMAIN ENTITIES :
                  /\ ENTITIES[i].name = t[2]
                  /\ LET item == ENTITIES[i].RELATIONSHIPS[FirstJoinTo(ENTITIES[i], t[1])]
                     IN  t[3] = [name |-> item[1], join |-> item[2]]

\* f declares two joins to the same upstream table with different match attributes
C10_Witness ==
    /\ EntityGraphBuilt
    /\ \E t \in CatalogJoins, u \in CatalogJoins :
          /\ t[1] = u[1] /\ t[2] # u[2]
          /\ t[3].entity = u[3].entity /\ t[3].match_name # u[3].match_name

-----------------------------------------------------------------------------
(* Construction over the same catalog visited in another order.            *)

Perms(n) == {p \in [1..n -> 1..n] : \A i \in 1..n, j \in 1..n : p[i] = p[j] => i = j}

Reversed(seq) == [i \in DOMAIN seq |-> seq[Len(seq) + 1 - i]]

\* an entity with its joins, its attributes, the inputs of its attributes
\* listed backwards where rj, ra, ri say so
ReorderEntity(entity, rj, ra, ri) ==
    LET attrs == [j \in DOMAIN entity.attributes |->
                    <<entity.attributes[j][1],
                      [entity.attributes[j][2] EXCEPT
                          !.inputs = IF ri THEN Reversed(@) ELSE @]>>]
    IN  [entity EXCEPT !.RELATIONSHIPS = IF rj THEN Reversed(@) ELSE @,
                       !.attributes = IF ra THEN Reversed(attrs) ELSE attrs]

\* the catalogs that declare what ENTITIES declares, in another order
Reorderings ==
    {[i \in DOMAIN ENTITIES |-> ReorderEntity(ENTITIES[pe[i]], rj, ra, ri)] :
        pe \in Perms(Len(ENTITIES)), rj \in BOOLEAN, ra \in BOOLEAN, ri \in BOOLEAN}

\* what construction yields: the node keys and edge pairs of the two graphs,
\* or the exception
Constructed(entities) ==
    LET eg == build_entity_graph(entities)
        r  == build_attribute_graph(eg)
    IN  IF r.ok
        THEN [ok |-> TRUE, entity_nodes |-> Keys(eg.nodes), entity_edges |-> EdgePairs(eg),
              attr_nodes |-> Keys(r.g.nodes), attr_edges |-> EdgePairs(r.g)]
        ELSE [ok |-> FALSE, entity_nodes |-> Keys(eg.nodes), entity_edges |-> EdgePairs(eg),
              error |-> r.error]

\* what the program has constructed
ConstructedHere ==
    IF pc = "build_attribute_graph raised"
    THEN [ok |-> FALSE, entity_nodes |-> Keys(entity_graph.nodes),
          entity_edges |-> EdgePairs(entity_graph), error |-> exc]
    ELSE [ok |-> TRUE, entity_nodes |-> Keys(entity_graph.nodes),
          entity_edges |-> EdgePairs(entity_graph),
          attr_nodes |-> Keys(attr_graph.nodes), attr_edges |-> EdgePairs(attr_graph)]

\* C11 (as claimed): construction run again on the same catalog, with entities,
\* joins, attributes and inputs visited in any order, yields entity and
\* attribute graphs with the same node sets and the same edge sets.
C11_OrderIndependent ==
    pc \in {"attr_graph", "build_attribute_graph raised"} =>
        \A entities \in Reorderings : Constructed(entities) = ConstructedHere

\* C12: for the shipped catalog construction completes and validates without
\* error, and the attribute graph contains the edges shops.country ->
\* Shops.country_name, shops.country -> Shops.country_code, orders.shop_id ->
\* Sales.shop_id, Shops.name -> Sales.shop_name and the join-key edge
\* Sales.shop_id -> Sales.shop_name (sources keyed by path, Derived entities
\* by lower-cased class name).
C12_ShippedCatalogBuilds ==
    ENTITIES = ShippedEntities =>
        /\ pc \notin {"build_attribute_graph raised", "validate_graph raised"}
        /\ AttrGraphBuilt =>
              {<<"data/raw/shops.country", "shops.country_name">>,
               <<"data/raw/shops.country", "shops.country_code">>,
               <<"data/raw/orders.shop_id", "sales.shop_id">>,
               <<"shops.name", "sales.shop_name">>,
               <<"sales.shop_id", "sales.shop_name">>} \subseteq EdgePairs(attr_graph)

C12_Witness == ENTITIES = ShippedEntities /\ pc = "validated"

-----------------------------------------------------------------------------
Inverse(E) == {<<p[2], p[1]>> : p \in E}

\* K and the keys reachable backward from K along edges of E
BackwardFrom(E, K) == {K} \cup ReachFrom(Inverse(E), K)

SourceKeys == {KeyOf(ea) : ea \in {ea \in CatalogAttrs : ea[1].cls = "Source"}}

\* C13 (as claimed): in every attribute graph that is built and validated, for
\* every attribute key K, every key reachable backward from K that has no
\* incoming edge is the key of an attribute of a Source table.
C13_LeavesAreSourceAttributes ==
    pc = "validated" =>
        \A K \in Keys(attr_graph.nodes) :
            \A L \in BackwardFrom(EdgePairs(attr_graph), K) :
                L \notin Targets(attr_graph) => L \in SourceKeys

-----------------------------------------------------------------------------
Contains(s, sub) == \E i \in 1..(Len(s) + 1 - Len(sub)) : SubSeq(s, i, i + Len(sub) - 1) = sub

\* C14 (as claimed): entity[name] returns the declared Attribute when the name
\* is declared, otherwise it fails with AttributeNotFound carrying the table's
\* legal attribute names; the attribute mapping is unchanged in both cases.
C14_LookupReturnsOrNotFound ==
    /\ [](pc \in {"getitem returned", "getitem raised"} =>
            LET self == ENTITIES[lookup.self]
            IN  IF Has(self.attributes, lookup.name)
                THEN /\ pc = "getitem returned"
                     /\ lookup.value = <<Get(self.attributes, lookup.name)>>
                ELSE /\ pc = "getitem raised"
                     /\ exc = "AttributeNotFound"
                     /\ \A j \in DOMAIN self.attributes :
                           Contains(lookup.message, self.attributes[j][1]))
    /\ [][ENTITIES' = ENTITIES]_vars

-----------------------------------------------------------------------------
Scheduling == pc \in {"unmarked_roots", "while", "returned"}

\* the keys on a cycle of E
OnCycle(E) == {k \in {p[1] : p \in E} : k \in ReachFrom(E, k)}

\* the node keys that can never become eligible: those with a key on a cycle,
\* or a key that is no node, among the keys they depend on
Ineligible(g) ==
    {k \in Keys(g.nodes) :
        \E a \in BackwardFrom(EdgePairs(g), k) :
            a \in OnCycle(EdgePairs(g)) \/ a \notin Keys(g.nodes)}

\* C15 (as claimed): if the attribute graph contains a cycle, the scheduling
\* loop never reaches its terminal condition, a transition unmarked_roots()
\* that returns the empty set.
C15_CycleNeverTerminates ==
    HasCycle(EdgePairs(attr_graph)) => ~(pc = "while" /\ unmarked = {})

\* C15 (amended): if the attribute graph contains a cycle, the nodes on the
\* cycle and every node that depends on them are never marked and enter no
\* layer; the loop nevertheless reaches its terminal condition after fewer
\* transitions returning a layer than there are nodes, and the layers returned
\* hold exactly the nodes that depend on no cycle and no undeclared key.
C15_CycleNodesNeverMarked ==
    (Scheduling /\ HasCycle(EdgePairs(attr_graph))) =>
        /\ Ineligible(attr_graph) \cap (marked.marked_nodes \cup Planned) = {}
        /\ Len(order) < Cardinality(Keys(attr_graph.nodes))
        /\ (pc = "while" /\ unmarked = {}) =>
              marked.marked_nodes = Keys(attr_graph.nodes) \ Ineligible(attr_graph)
        /\ pc = "returned" => Planned = Keys(attr_graph.nodes) \ Ineligible(attr_graph)

\* a plan returned for a graph with a cycle that a scheduled node leads into
C15_Witness ==
    /\ pc = "returned"
    /\ order # <<>>
    /\ \E p \in EdgePairs(attr_graph) :
          p[1] \in Planned /\ p[2] \in OnCycle(EdgePairs(attr_graph))

-----------------------------------------------------------------------------
\* the unmarked_roots transitions execution_order has made so far
Transitions == Len(order) + (IF pc \in {"while", "returned"} THEN 1 ELSE 0)

\* C16: execution_order terminates on every finite graph, cyclic or not: each
\* unmarked_roots transition that returns a non-empty layer strictly enlarges
\* the marked set, which stays a subset of the node keys, so the loop ends
\* after at most |nodes| + 1 transitions, at the first transition that returns
\* the empty set.
C16_ExecutionOrderTerminates ==
    /\ [](Scheduling =>
            /\ marked.marked_nodes \subseteq Keys(marked.nodes)
            /\ Transitions <= Cardinality(Keys(marked.nodes)) + 1
            /\ \A i \in DOMAIN order : order[i] # {}
            /\ pc = "returned" => unmarked = {})
    /\ [][(pc = "unmarked_roots" /\ pc' = "while" /\ unmarked' # {}) =>
            /\ marked.marked_nodes \subseteq marked'.marked_nodes
            /\ marked.marked_nodes # marked'.marked_nodes]_vars
    /\ [][(pc = "while" /\ unmarked = {}) => pc' = "returned"]_vars
    /\ (pc = "unmarked_roots") ~> (pc = "returned")

\* execution_order returned after exactly |nodes| + 1 transitions, on a chain
\* of at least four nodes
C16_Witness ==
    /\ pc = "returned"
    /\ Transitions = Cardinality(Keys(attr_graph.nodes)) + 1
    /\ Len(order) >= 4

-----------------------------------------------------------------------------
Max(S) == CHOOSE m \in S : \A n \in S : n <= m

RECURSIVE LongestPath(_, _)
\* the number of edges of the longest path of E that ends at k (E acyclic)
LongestPath(E, k) ==
    IF \A p \in E : p[2] # k THEN 0
    ELSE 1 + Max({LongestPath(E, p[1]) : p \in {p \in E : p[2] = k}})

\* C17: each unmarked_roots transition returns exactly the nodes that were
\* unmarked at its start and all of whose incoming edges originate from nodes
\* marked at its start; hence on an acyclic graph whose edge endpoints are all
\* nodes, a node lies in layer k (counted from 0) iff the longest path ending
\* at it has exactly k edges.
C17_LayerIsLongestPath ==
    /\ [][(pc = "unmarked_roots" /\ pc' = "while") =>
            unmarked' = {k \in Keys(marked.nodes) \ marked.marked_nodes :
                            \A p \in EdgePairs(marked) :
                                p[2] = k => p[1] \in marked.marked_nodes}]_vars
    /\ []((/\ pc = "returned"
           /\ ~HasCycle(EdgePairs(attr_graph))
           /\ \A p \in EdgePairs(attr_graph) :
                 p[1] \in Keys(attr_graph.nodes) /\ p[2] \in Keys(attr_graph.nodes))
          => \A k \in Keys(attr_graph.nodes) : \A i \in 1..Cardinality(Keys(attr_graph.nodes)) :
                (i \in DOMAIN order /\ k \in order[i])
                    <=> LongestPath(EdgePairs(attr_graph), k) = i - 1)

\* a plan returned for an acyclic graph with all edge endpoints nodes, in
\* which a node of the third layer also has a direct edge from the first
C17_Witness ==
    /\ pc = "returned"
    /\ ~HasCycle(EdgePairs(attr_graph))
    /\ \A p \in EdgePairs(attr_graph) : p[1] \in Keys(attr_graph.nodes)
    /\ Len(order) >= 3
    /\ \E p \in EdgePairs(attr_graph) : p[1] \in order[1] /\ p[2] \in order[3]

-----------------------------------------------------------------------------
\* C18: the scheduler works on a copy: execution_order leaves the nodes and
\* edges of the attribute graph passed to it unchanged; every unmarked_roots
\* transition leaves the working copy's nodes and edges unchanged and only
\* grows the marked set, which is initially empty, never shrinks and is always
\* a subset of the node keys.
C18_SchedulerWorksOnCopy ==
    /\ [][(pc \in {"attr_graph", "validated", "unmarked_roots", "while"} /\ Scheduling')
            => attr_graph' = attr_graph]_vars
    /\ [][(pc \in {"attr_graph", "validated"} /\ Scheduling')
            => /\ marked'.marked_nodes = {}
               /\ marked'.nodes = attr_graph.nodes
               /\ marked'.edges = attr_graph.edges]_vars
    /\ [][(Scheduling /\ Scheduling')
            => /\ marked'.nodes = marked.nodes
               /\ marked'.edges = marked.edges
               /\ marked.marked_nodes \subseteq marked'.marked_nodes]_vars
    /\ [](Scheduling =>
            /\ marked.nodes = attr_graph.nodes
            /\ marked.edges = attr_graph.edges
            /\ marked.marked_nodes \subseteq Keys(marked.nodes))

\* execution_order returned with nodes marked, on a graph that has edges
C18_Witness ==
    /\ pc = "returned"
    /\ marked.marked_nodes # {}
    /\ attr_graph.edges # <<>>
    /\ marked.edges = attr_graph.edges

-----------------------------------------------------------------------------
\* C19 (as claimed): in every attribute graph build_attribute_graph returns,
\* both endpoints of every edge are keys of nodes of the graph: each input_key
\* and parent_key the resolver produces names a declared attribute.
C19_EdgeEndpointsAreNodes ==
    AttrGraphBuilt =>
        \A p \in EdgePairs(attr_graph) :
            p[1] \in Keys(attr_graph.nodes) /\ p[2] \in Keys(attr_graph.nodes)

====
